---- MODULE Spec2Model ----
(***************************************************************************)
(* The page component of src/routes/+page.svelte: the transport bridge to  *)
(* the native request command, the fork/unfork toggle, the poll loop       *)
(* ($effect on startMessage) and the interface synthesis pipeline          *)
(* (handleAbi) with its injection into the sandbox iframe.                 *)
(*                                                                         *)
(* JavaScript runs one task at a time, so every action below is one task   *)
(* together with the microtasks it queues: a handler, or the continuation  *)
(* of an awaited promise up to its next await.                             *)
(*                                                                         *)
(* Spec is the page as its buttons and the native commands drive it. A     *)
(* chain read of the page is the position of the cycle that awaits it; it  *)
(* settles with what the bridge makes of the response (Outcome).           *)
(* SpecCalls is the transport bridge and the fork manager with their       *)
(* functions called directly, in any order and with calls overlapping: the *)
(* calls in flight are in `sends`, each with its envelope.                 *)
(* SpecAbi is the page once Start has succeeded and the poll loop runs,    *)
(* driven by the address field, the Get ABI button, the poll timer and the *)
(* answers of the chain and of the generation service, whose bodies may be *)
(* unparsable, without content, or markup. SpecScript is the same page     *)
(* with the address it was loaded with and markup that may have an inline  *)
(* script; SpecRace is the same page where the address is replaced once.   *)
(* SpecStore is the page over its loads: the three persisted fields are    *)
(* edited and the page is loaded again from what localStorage holds.       *)
(***************************************************************************)
EXTENDS Integers, Sequences, FiniteSets, TLC

\* ---- bounds of the model ----
MaxCycles == 2          \* pollBlock invocations in flight at once
MaxStarts == 1          \* invoke('start') calls in flight at once
MaxCalls == 2           \* calls of the bridge in flight at once

MaxSessions == MaxCycles + 1
NumHandles == MaxSessions + 1
UUIDs == 1..(MaxCalls + 1)

\* ---- values crossing the native boundary ----
Undefined == "undefined"
ResolvedMessages == {"", "started"}     \* what invoke('start') may resolve with
RejectedMessages == {"failed"}          \* what invoke('start') may reject with
Results == {"0xa"}
ErrorPayloads == {[code |-> -32000, message |-> "reverted", data |-> "0x"]}
\* A response of the native request command. A field that is absent is the
\* empty sequence, a field that is present a one-element sequence.
Responses ==
    [error : {<<>>}, result : {<<r>> : r \in Results}]
        \cup [error : {<<e>> : e \in ErrorPayloads}, result : {<<>>}]
        \cup [error : {<<e>> : e \in ErrorPayloads}, result : {<<r>> : r \in Results}]

\* Contract addresses as the input field holds them, and the one localStorage
\* has for a user who was here before. "A" is a contract that has a name()
\* function, "B" an account without bytecode.
AddressInputs == {<<>>, <<" ">>, <<"A">>, <<"B", " ">>}
StoredAddress == <<"A">>
KeyInputs == {<<>>, <<" ">>, <<"k">>, <<"j">>}

VARIABLES
    startMessage,     \* line 12
    startsInFlight,   \* number of pending invoke('start') promises (line 59)
    mounted,          \* the component (and its iframe) is in the page
    tevmClient,       \* line 16: 0 is undefined, else the identity of the memory client
    block,            \* line 38
    contractAddress,  \* line 39: a string, as the sequence of its characters
    openAiKey,        \* line 40
    etherscanKey,     \* line 41
    localStorage,     \* the browser's storage of the page: key -> <<>> (no item)
                      \* or <<value>>
    sessions,         \* the closures of the poll $effect, newest first: isRunning,
                      \* timeoutId (lines 207-208)
    activeSession,    \* the session whose cleanup the $effect holds (0: none)
    timers,           \* pending setTimeout(pollBlock) timers
    cycles,           \* pollBlock and handleAbi invocations in flight: a bag of
                      \* their positions
    sends,            \* calls of the bridge in flight, with their envelopes
    sandbox,          \* the iframe's document and its viemProvider global
    lastCall,         \* history: the last of fork()/unfork() that was called directly
    lastSettle        \* history: how the last send of the bridge settled

vars == <<startMessage, startsInFlight, mounted, tevmClient, block, contractAddress,
          openAiKey, etherscanKey, localStorage,
          sessions, activeSession, timers, cycles, sends, sandbox, lastCall, lastSettle>>

\* The smallest slot of 1..max that is not in use.
FreeSlot(used, max) == CHOOSE n \in (1..max) \ used : \A m \in (1..max) \ used : n <= m

\* ---------------------------------------------------------------------------
\* Bags of records: cycles in the same position are not told apart.
\* ---------------------------------------------------------------------------
Put(bag, e) == IF e \in DOMAIN bag THEN [bag EXCEPT ![e] = @ + 1] ELSE bag @@ (e :> 1)

Take(bag, e) ==
    IF bag[e] > 1 THEN [bag EXCEPT ![e] = @ - 1] ELSE [d \in DOMAIN bag \ {e} |-> bag[d]]

RECURSIVE SumOver(_, _)
SumOver(bag, S) ==
    IF S = {} THEN 0 ELSE LET e == CHOOSE x \in S : TRUE IN bag[e] + SumOver(bag, S \ {e})

Size(bag) == SumOver(bag, DOMAIN bag)

EmptyBag == [e \in {} |-> 0]

\* ---------------------------------------------------------------------------
\* Transport bridge: client transport request (lines 20-33) and the provider
\* injected into the sandbox (lines 177-190).
\* ---------------------------------------------------------------------------

Methods == {"eth_getBlockByNumber", "eth_call"}

\* A bridge that numbers its envelopes with a constant.
randomUUID_Constant(inUse) == {1}

\* crypto.randomUUID() (lines 25, 183): some value that no envelope in use carries.
randomUUID(inUse) == UUIDs \ inUse

\* The envelope handed to invoke('request') (lines 21-26, 179-185).
Envelope(method, uuid) == [method |-> method, jsonrpc |-> "2.0", id |-> uuid]

\* A .then that looks at the result first and so returns it when both fields
\* are there.
Then_ResultFirst(response) ==
    IF response.result # <<>>
    THEN [kind |-> "resolved", error |-> <<>>, result |-> response.result]
    ELSE [kind |-> "rejected", error |-> response.error, result |-> <<>>]

\* .then(response => ...) (lines 27-29, 185-188): throw response.error when it
\* is there, else return response.result.
Then(response) ==
    IF response.error # <<>>
    THEN [kind |-> "rejected", error |-> response.error, result |-> <<>>]
    ELSE [kind |-> "resolved", error |-> <<>>, result |-> response.result]

\* .catch(e => { throw e }) (lines 30-32): the rejection is passed on as it is.
Catch(e) == [do |-> "throw", error |-> e]

\* invoke() returns the promise of the very call it made, and the .then above
\* is chained on it: the response to a call settles that call's promise.
PromiseOf(inFlight, call) == call

\* What the caller of the bridge gets for a response: .then, and for the
\* client transport the .catch that throws the error on.
Outcome(via, response) ==
    LET t == Then(response) IN
    IF t.kind = "rejected" /\ via = "client"
    THEN [t EXCEPT !.error = Catch(t.error).error]
    ELSE t

IdsInUse(sd) == {s.env.id : s \in sd}

\* A call of the bridge: one invoke('request') in flight.
NewSend(method, via, slot, uuid) ==
    [env |-> Envelope(method, uuid), via |-> via, slot |-> slot, invokes |-> 1]

NoSettle ==
    [via |-> "none", error |-> <<>>, result |-> <<>>, kind |-> "none",
     outError |-> <<>>, outResult |-> <<>>, invokes |-> 0, envId |-> 0, respFor |-> 0,
     others |-> 0]

\* ---------------------------------------------------------------------------
\* Fork manager (lines 68-77).
\* ---------------------------------------------------------------------------

\* createMemoryClient(...) (line 69): a new object, distinct from the one held.
createMemoryClient(old) == IF old = 1 THEN 2 ELSE 1

\* A fork written as the toggle the button is.
fork_Toggle(old) == IF old # 0 THEN 0 ELSE createMemoryClient(old)

\* fork (lines 68-74): the value assigned to tevmClient.
fork(old) == createMemoryClient(old)

\* unfork (lines 75-77): tevmClient = undefined.
unfork(old) == 0

\* The backend a chain read of the page goes to: getBlock (line 80), the
\* autoload provider (line 90) and readContract (line 109) all use `client`,
\* whatever tevmClient holds.
ReadBackend(tevm) == "live"

\* ---------------------------------------------------------------------------
\* Poll loop: the $effect of lines 204-223.
\* ---------------------------------------------------------------------------

\* if (!startMessage) return (line 205): undefined and "" are falsy.
Truthy(v) == v # Undefined /\ v # ""

\* A cleanup that does not clear the flag.
CleanupSessions_KeepFlag(ss, a) == ss

\* cleanup, line 220: isRunning = false.
CleanupSessions(ss, a) == IF a = 0 THEN ss ELSE [ss EXCEPT ![a].isRunning = FALSE]

\* A cleanup that does not clear the timer.
CleanupTimers_NoClear(tm, ss, a) == tm

\* cleanup, line 221: clearTimeout(timeoutId).
CleanupTimers(tm, ss, a) == IF a = 0 THEN tm ELSE {t \in tm : t.h # ss[a].timeoutId}

\* setInterval in the place of setTimeout: the timer stays armed.
FireTimer_Interval(tm, t) == tm

\* setTimeout is one-shot (line 213): a timer that fires is no longer pending.
FireTimer(tm, t) == tm \ {t}

\* The positions of a pollBlock invocation: which await it is suspended at.
\* "getBlock" is line 210; the others are inside handleAbi (line 211):
\* autoload (line 97), readContract (line 109), fetch (line 120) and
\* response.json() (line 165).
ReadPcs == {"getBlock", "autoload", "readContract"}

\* A frame has the locals that are read again after the await: the
\* trimmedAddress (line 87), how the name probe ended (lines 100-118) and the
\* body of the generation response (line 165); and of the autoload call it
\* awaits (line 97), whether its config asks for proxies to be followed and
\* how many hops it has followed.
Frame(session, pc, tevm) ==
    [session |-> session, pc |-> pc,
     backend |-> IF pc \in ReadPcs THEN ReadBackend(tevm) ELSE "none",
     address |-> <<>>, probe |-> "none", body |-> "none",
     followProxies |-> FALSE, hops |-> 0]

\* String.prototype.trim (lines 87, 91): the string without the white space at
\* its ends.
RECURSIVE trim(_)
trim(s) ==
    IF s = <<>> THEN s
    ELSE IF Head(s) = " " THEN trim(Tail(s))
    ELSE IF s[Len(s)] = " " THEN trim(SubSeq(s, 1, Len(s) - 1))
    ELSE s

\* A handleAbi that reads contractAddress again after an await.
At_RereadsAddress(c, pc, tevm) ==
    [c EXCEPT !.pc = pc, !.backend = Frame(c.session, pc, tevm).backend,
              !.address = trim(contractAddress)]

\* The frame c at the await `pc`.
At(c, pc, tevm) == [c EXCEPT !.pc = pc, !.backend = Frame(c.session, pc, tevm).backend]

\* A config that asks autoload to follow the proxies it finds.
AutoloadConfig_FollowProxies(esKey) ==
    [provider |-> "client",
     abiLoader |-> IF trim(esKey) # <<>> THEN "etherscan" ELSE "default",
     followProxies |-> TRUE]

\* The config of the autoload call (lines 90-95): the client as provider, the
\* Etherscan loader when there is a key; followProxies is not set, and the
\* library's default is false (docs/deps/whatsabi.raw.md, line 137).
AutoloadConfig(esKey) ==
    [provider |-> "client",
     abiLoader |-> IF trim(esKey) # <<>> THEN "etherscan" ELSE "default",
     followProxies |-> FALSE]

\* handleAbi() is called (lines 211, 293) by the closure `session` (0: by the
\* Get ABI button): it runs up to its await of whatsabi.autoload (line 97)
\* with the address it has read and trimmed (line 87) and its config.
handleAbi(session, tevm, addr, esKey) ==
    [Frame(session, "autoload", tevm) EXCEPT
        !.address = trim(addr),
        !.followProxies = AutoloadConfig(esKey).followProxies]

\* A pollBlock that does not run its cycle when it is called.
pollBlock_Deferred(cy, i, tevm) == cy

\* pollBlock() is called (lines 216, 213): it runs up to its await of
\* getBlock (line 210), for the closure i.
pollBlock(cy, i, tevm) == Put(cy, Frame(i, "getBlock", tevm))

UsedHandles(tm) == {t.h : t \in tm}

FramesOf(cy, i) == {c \in DOMAIN cy : c.session = i}

\* The new values of the poll loop's state. A closure nothing refers to any
\* more (torn down, no cycle in flight, no timer pending) is garbage and
\* leaves the list; the others keep their order, newest first. A timeoutId
\* whose timer has fired or was cleared refers to nothing: handles are never
\* reused, so it is the same as no handle.
Commit(ss, cy, tm, a) ==
    LET live(i) == ss[i].isRunning \/ FramesOf(cy, i) # {} \/ (\E t \in tm : t.session = i)
        kept == {i \in 1..Len(ss) : live(i)}
        rank(i) == Cardinality({j \in kept : j <= i})
        ren(c) == [c EXCEPT !.session = rank(@)]
    IN  /\ sessions' = [k \in 1..Cardinality(kept) |->
                LET i == CHOOSE j \in kept : rank(j) = k IN
                [ss[i] EXCEPT !.timeoutId = IF \E t \in tm : t.h = @ THEN @ ELSE 0]]
        /\ cycles' = [d \in {ren(c) : c \in DOMAIN cy} |->
                cy[CHOOSE c \in DOMAIN cy : ren(c) = d]]
        /\ timers' = {[t EXCEPT !.session = rank(@)] : t \in tm}
        /\ activeSession' = IF a = 0 THEN 0 ELSE rank(a)

\* A cycle that does not wait at the await it comes to and runs on to the
\* last one.
Advance_NoAwait(c, d) ==
    /\ cycles' = Put(Take(cycles, c), At(d, "json", tevmClient))
    /\ UNCHANGED <<sessions, timers, activeSession>>

\* The invocation at position c goes on and is suspended as the frame d; no
\* closure changes.
Advance(c, d) ==
    /\ cycles' = Put(Take(cycles, c), d)
    /\ UNCHANGED <<sessions, timers, activeSession>>

\* A new closure comes first in the list: the others move one place on.
Older(c) == [c EXCEPT !.session = @ + 1]

OlderBag(cy) == [d \in {Older(c) : c \in DOMAIN cy} |-> cy[CHOOSE c \in DOMAIN cy : Older(c) = d]]

\* The iframe as the page has it at first (lines 296-301): the srcdoc
\* placeholder, no viemProvider. `surfaceFor` is the address the markup in
\* the document was generated for (none for the placeholder).
NoSurface ==
    [content |-> "srcdoc", viemProvider |-> 0, steps |-> <<>>, scriptSaw |-> <<>>,
     surfaceFor |-> <<>>]

\* ---------------------------------------------------------------------------
\* The persisted fields (lines 39-53, 225-231).
\* ---------------------------------------------------------------------------
StorageKeys == {"contractAddress", "openai-key", "etherscan-key", "openAiKey"}

\* localStorage.setItem(key, value)
setItem(ls, key, value) == [ls EXCEPT ![key] = <<value>>]

\* localStorage.getItem(key) || '' : null and the empty string give ''.
getItemOrEmpty(ls, key) == IF ls[key] = <<>> THEN <<>> ELSE ls[key][1]

\* The $effect of lines 43-47.
PersistOpenAiKey(ls, key) == IF key # <<>> THEN setItem(ls, "openai-key", key) ELSE ls

\* The $effect of lines 49-53.
PersistEtherscanKey(ls, key) == IF key # <<>> THEN setItem(ls, "etherscan-key", key) ELSE ls

\* The $effect of lines 225-227.
PersistContractAddress(ls, address) == setItem(ls, "contractAddress", address)

\* The $effect of lines 229-231.
PersistOpenAiKeyCopy(ls, key) == setItem(ls, "openAiKey", key)

\* All four $effects run once when the component is mounted.
MountEffects(ls, address, oaKey, esKey) ==
    PersistOpenAiKeyCopy(
        PersistContractAddress(
            PersistEtherscanKey(PersistOpenAiKey(ls, oaKey), esKey), address), oaKey)

\* The storage of a browser in which the address StoredAddress was entered
\* in an earlier run of the page, and no key.
StoredBefore ==
    [k \in StorageKeys |-> IF k = "contractAddress" THEN <<StoredAddress>> ELSE <<>>]

Init ==
    /\ startMessage = Undefined
    /\ startsInFlight = 0
    /\ mounted = TRUE
    /\ tevmClient = 0
    /\ block = Undefined
    /\ contractAddress = getItemOrEmpty(StoredBefore, "contractAddress")
    /\ openAiKey = getItemOrEmpty(StoredBefore, "openai-key")
    /\ etherscanKey = getItemOrEmpty(StoredBefore, "etherscan-key")
    /\ localStorage = MountEffects(StoredBefore, contractAddress, openAiKey, etherscanKey)
    /\ sessions = <<>>
    /\ activeSession = 0
    /\ timers = {}
    /\ cycles = EmptyBag
    /\ sends = {}
    /\ sandbox = NoSurface
    /\ lastCall = "none"
    /\ lastSettle = NoSettle

\* ---------------------------------------------------------------------------
\* Actions of the page.
\* ---------------------------------------------------------------------------

\* The Start button (line 235): start() up to its await (line 59).
ClickStart ==
    /\ mounted
    /\ startsInFlight < MaxStarts
    /\ startsInFlight' = startsInFlight + 1
    /\ UNCHANGED <<startMessage, mounted, tevmClient, block, sessions, activeSession,
                   timers, cycles, sends, sandbox, lastCall, lastSettle, contractAddress,
                   openAiKey, etherscanKey, localStorage>>

\* The poll $effect runs again because startMessage changed: the cleanup of
\* its previous run (lines 219-222), then its body (lines 205-216) with the
\* first pollBlock() called in place, up to its await of getBlock (line 210).
RunPollEffect(value, origin) ==
    LET ss1 == CleanupSessions(sessions, activeSession)
        tm1 == CleanupTimers(timers, sessions, activeSession)
    IN  IF ~Truthy(value)
        THEN Commit(ss1, cycles, tm1, 0)
        ELSE /\ Size(cycles) < MaxCycles
             /\ Len(sessions) < MaxSessions
             /\ Commit(<<[isRunning |-> TRUE, timeoutId |-> 0, origin |-> origin]>> \o ss1,
                       pollBlock(OlderBag(cycles), 1, tevmClient),
                       {Older(t) : t \in tm1},
                       1)

\* startMessage = await invoke('start', ...).catch(e => e) (lines 59-65): the
\* assignment, and the $effect that depends on startMessage when the value is
\* a new one and the component is still mounted.
AssignStartMessage(value, origin) ==
    /\ startsInFlight > 0
    /\ startsInFlight' = startsInFlight - 1
    /\ startMessage' = value
    /\ IF mounted /\ value # startMessage
       THEN RunPollEffect(value, origin)
       ELSE UNCHANGED <<sessions, activeSession, timers, cycles>>
    /\ UNCHANGED <<mounted, tevmClient, block, sends, sandbox, lastCall, lastSettle, contractAddress,
                   openAiKey, etherscanKey, localStorage>>

\* invoke('start') resolves with a message.
StartResolves(msg) == AssignStartMessage(msg, "resolved")

\* invoke('start') rejects: .catch returns the error, which is assigned as well.
StartRejects(e) == AssignStartMessage(e, "rejected")

\* A button whose toggle makes the poll $effect run again, as it would if the
\* $effect read tevmClient.
ClickForkButton_RestartsLoop ==
    /\ mounted
    /\ tevmClient' = IF tevmClient # 0 THEN unfork(tevmClient) ELSE fork(tevmClient)
    /\ IF Truthy(startMessage)
       THEN RunPollEffect(startMessage, "resolved")
       ELSE UNCHANGED <<sessions, activeSession, timers, cycles>>
    /\ UNCHANGED <<startMessage, startsInFlight, mounted, block, sends, sandbox, lastCall,
                   lastSettle, contractAddress, openAiKey, etherscanKey, localStorage>>

\* The Fork/Unfork button (line 236): onclick={tevmClient ? unfork : fork}.
ClickForkButton ==
    /\ mounted
    /\ tevmClient' = IF tevmClient # 0 THEN unfork(tevmClient) ELSE fork(tevmClient)
    /\ UNCHANGED <<startMessage, startsInFlight, mounted, block, sessions, activeSession,
                   timers, cycles, sends, sandbox, lastCall, lastSettle, contractAddress,
                   openAiKey, etherscanKey, localStorage>>

\* The component is destroyed: the cleanup of the poll $effect runs.
Unmount ==
    /\ mounted
    /\ mounted' = FALSE
    /\ Commit(CleanupSessions(sessions, activeSession), cycles,
              CleanupTimers(timers, sessions, activeSession), 0)
    /\ UNCHANGED <<startMessage, startsInFlight, tevmClient, block, sends, sandbox,
                   lastCall, lastSettle, contractAddress,
                   openAiKey, etherscanKey, localStorage>>

\* A timer set at line 213 fires: pollBlock() up to its await of getBlock.
TimerFires(t) ==
    /\ t \in timers
    /\ Size(cycles) < MaxCycles
    /\ Commit(sessions, pollBlock(cycles, t.session, tevmClient),
              FireTimer(timers, t), activeSession)
    /\ UNCHANGED <<startMessage, startsInFlight, mounted, tevmClient, block, sends,
                   sandbox, lastCall, lastSettle, contractAddress,
                   openAiKey, etherscanKey, localStorage>>

\* The native request command answers the getBlock of a cycle (lines 80-82,
\* 210-211): on a result the block is stored and handleAbi() runs up to its
\* await of autoload (lines 87-97); on an error `await getBlock()` throws and
\* pollBlock ends there.
GetBlockSettles(c, response) ==
    /\ c \in DOMAIN cycles
    /\ c.pc = "getBlock"
    /\ LET out == Outcome("client", response) IN
       IF out.kind = "resolved"
       THEN /\ block' = out.result[1]
            /\ Advance(c, handleAbi(c.session, tevmClient, contractAddress, etherscanKey))
       ELSE /\ block' = block
            /\ Commit(sessions, Take(cycles, c), timers, activeSession)
    /\ UNCHANGED <<startMessage, startsInFlight, mounted, tevmClient, sends, sandbox,
                   lastCall, lastSettle, contractAddress,
                   openAiKey, etherscanKey, localStorage>>

\* A pollBlock that sets the timer of the next cycle without looking at
\* isRunning.
ReturnFromHandleAbi_NoFlagCheck(c) ==
    IF c.session = 0
    THEN Commit(sessions, Take(cycles, c), timers, activeSession)
    ELSE /\ UsedHandles(timers) # 1..NumHandles
         /\ LET h == FreeSlot(UsedHandles(timers), NumHandles) IN
            Commit([sessions EXCEPT ![c.session].timeoutId = h], Take(cycles, c),
                   timers \cup {[h |-> h, session |-> c.session]}, activeSession)

\* handleAbi returns (lines 167, 171, 174, 197 or the catch of line 199): its
\* promise resolves. The button does nothing with it; the pollBlock awaiting
\* it goes on: it leaves when isRunning is cleared, else sets the timer of the
\* next cycle (lines 212-213).
ReturnFromHandleAbi(c) ==
    IF c.session = 0
    THEN Commit(sessions, Take(cycles, c), timers, activeSession)
    ELSE IF sessions[c.session].isRunning
    THEN /\ UsedHandles(timers) # 1..NumHandles
         /\ LET h == FreeSlot(UsedHandles(timers), NumHandles) IN
            Commit([sessions EXCEPT ![c.session].timeoutId = h], Take(cycles, c),
                   timers \cup {[h |-> h, session |-> c.session]}, activeSession)
    ELSE Commit(sessions, Take(cycles, c), timers, activeSession)

\* A handleAbi without its try/catch: the rejection ends the pollBlock that
\* awaits it.
CatchInHandleAbi_Rethrow(c) == Commit(sessions, Take(cycles, c), timers, activeSession)

\* catch (error) { console.error(...) } (lines 199-201): the rejection of an
\* awaited stage ends handleAbi, whose promise resolves.
CatchInHandleAbi(c) == ReturnFromHandleAbi(c)

\* What whatsabi.autoload finds at an address (line 97): the ABI of the
\* contract there; an account without bytecode, and no address, have none.
AbiOf(address) ==
    IF address = <<"A">> THEN {"name", "transfer"}
    ELSE IF address = <<"C">> THEN {"name", "upgradeTo"}
    ELSE {}

\* The proxies autoload detects (result.proxies): the contract at "A" is a
\* proxy of the one at "C", which is a proxy of the one at "A": a chain that
\* is a cycle. <<>>: no proxy.
ProxyTarget(address) ==
    IF address = <<"A">> THEN <<"C">>
    ELSE IF address = <<"C">> THEN <<"A">>
    ELSE <<>>

\* The contract that is `n` hops along the chain from `address`.
RECURSIVE HopsFrom(_, _)
HopsFrom(address, n) == IF n = 0 THEN address ELSE HopsFrom(ProxyTarget(address), n - 1)

\* The contract whose ABI the autoload call of the frame c is at.
ResolvedAddress(c) == HopsFrom(c.address, c.hops)

\* result.abi.find(...) (lines 102-106): the zero-argument function `name`.
HasNameFunction(abi) == "name" \in abi

\* The chain read of whatsabi.autoload (line 97) is answered. With an ABI that
\* has a zero-argument `name` function readContract is called (lines 102-113),
\* else the generation request is sent (line 120); a rejection goes to the
\* catch of line 199. An autoload that was asked to follow proxies goes on,
\* still awaited, with the target of the proxy it has found.
AutoloadSettles(c, response) ==
    /\ c \in DOMAIN cycles
    /\ c.pc = "autoload"
    /\ IF Outcome("client", response).kind = "resolved"
       THEN IF c.followProxies /\ ProxyTarget(ResolvedAddress(c)) # <<>>
            THEN Advance(c, [c EXCEPT !.hops = @ + 1])
            ELSE IF HasNameFunction(AbiOf(ResolvedAddress(c)))
            THEN Advance(c, At(c, "readContract", tevmClient))
            ELSE Advance(c, [At(c, "fetch", tevmClient) EXCEPT !.probe = "absent"])
       ELSE CatchInHandleAbi(c)
    /\ UNCHANGED <<startMessage, startsInFlight, mounted, tevmClient, block, sends,
                   sandbox, lastCall, lastSettle, contractAddress,
                   openAiKey, etherscanKey, localStorage>>

\* A name probe without its own try/catch: the rejection goes to the catch of
\* handleAbi.
ProbeCaught_Outer(c) == CatchInHandleAbi(c)

\* catch (error) { console.warn(...) } (lines 116-118): handleAbi goes on to the
\* generation request (line 120).
ProbeCaught(c) == Advance(c, [At(c, "fetch", tevmClient) EXCEPT !.probe = "failed"])

\* readContract (line 109) is answered: the name, or the catch of line 116;
\* either way the generation request is sent (line 120).
ReadContractSettles(c, response) ==
    /\ c \in DOMAIN cycles
    /\ c.pc = "readContract"
    /\ IF Outcome("client", response).kind = "resolved"
       THEN Advance(c, [At(c, "fetch", tevmClient) EXCEPT !.probe = "ok"])
       ELSE ProbeCaught(c)
    /\ UNCHANGED <<startMessage, startsInFlight, mounted, tevmClient, block, sends,
                   sandbox, lastCall, lastSettle, contractAddress,
                   openAiKey, etherscanKey, localStorage>>

\* A name that is left unset when the probe did not give one.
contractName_NoDefault(probe) == IF probe = "ok" THEN "Token" ELSE "undefined"

\* contractName (lines 100, 114): 'Unknown Contract' unless readContract gave
\* the name.
contractName(probe) == IF probe = "ok" THEN "Token" ELSE "Unknown Contract"

\* What the generation request of a frame says (lines 126-162): the name, the
\* address and the ABI.
Request(c) ==
    [name |-> contractName(c.probe), address |-> c.address,
     abi |-> AbiOf(ResolvedAddress(c))]

\* The bodies a generation response may have: none that parses, one without
\* choices[0].message.content, markup, and markup with an inline script.
Bodies == {"unparsable", "none", "markup", "script"}
\* Under Spec the generation service answers with markup.
Contents == {"markup"}

\* Under SpecAbi the markup of the generation service has no inline script.
PlainBodies == Bodies \ {"script"}

\* fetch (line 120) settles: a response, then response.json() is awaited (line
\* 165), or a rejection, caught at line 199.
FetchSettles(c, ok, body) ==
    /\ c \in DOMAIN cycles
    /\ c.pc = "fetch"
    /\ IF ok
       THEN Advance(c, [At(c, "json", tevmClient) EXCEPT !.probe = "none", !.body = body])
       ELSE CatchInHandleAbi(c)
    /\ UNCHANGED <<startMessage, startsInFlight, mounted, tevmClient, block, sends,
                   sandbox, lastCall, lastSettle, contractAddress,
                   openAiKey, etherscanKey, localStorage>>

\* A generatedUI that falls back to a placeholder.
generatedUI_Placeholder(body) == <<"markup">>

\* data.choices?.[0]?.message?.content (line 166): the markup, when it is there.
generatedUI(body) == IF body \in {"markup", "script"} THEN <<body>> ELSE <<>>

\* Objects are told apart by a number; 0 is undefined, and the transport of
\* the host's client (lines 19-33) is an object of its own.
ClientTransport == 0 - 1

\* The provider object of an injection (lines 177-190): a new object, none of
\* those in `held`.
NewProvider(held) == CHOOSE n \in 1..(Cardinality(held) + 1) : n \notin held

\* The iframe of the page (line 170) is there while the component is.
HasIframe == mounted

\* doc.open() (line 192): the document is cleared. `steps` is what was done
\* to the sandbox since the last injection began.
DocOpen(sb) == [sb EXCEPT !.content = "blank", !.steps = Append(@, "open"), !.scriptSaw = <<>>]

\* doc.write(generatedUI) (line 193): the markup is parsed, and an inline
\* script in it runs as it is parsed, with the viemProvider that is there.
DocWrite(sb, markup) ==
    [sb EXCEPT !.content = "generated", !.steps = Append(@, "write"),
               !.scriptSaw = IF markup = "script" THEN <<sb.viemProvider>> ELSE <<>>]

\* contentWindow.viemProvider = provider (line 194).
Attach(sb, provider) == [sb EXCEPT !.viemProvider = provider, !.steps = Append(@, "attach")]

\* doc.close() (line 195).
DocClose(sb) == [sb EXCEPT !.steps = Append(@, "close")]

\* An injection that attaches the provider before it writes the content.
Inject_AttachFirst(sb, markup) ==
    DocClose(DocWrite(DocOpen(Attach([sb EXCEPT !.steps = <<>>],
                                     NewProvider({sb.viemProvider, ClientTransport}))),
                      markup))

\* An injection that keeps the surface that is there.
Inject_Cached(sb, markup) ==
    IF sb.content = "generated"
    THEN sb
    ELSE DocClose(Attach(DocWrite(DocOpen([sb EXCEPT !.steps = <<>>]), markup),
                         NewProvider({sb.viemProvider, ClientTransport})))

\* Lines 177-195: a new provider; open, write, attach, close.
Inject(sb, markup) ==
    DocClose(Attach(DocWrite(DocOpen([sb EXCEPT !.steps = <<>>]), markup),
                    NewProvider({sb.viemProvider, ClientTransport})))

\* The markup of a response is what the service made of the request it
\* answers (lines 133-159): a surface for the address of that request.
SurfaceOf(c, sb) == [sb EXCEPT !.surfaceFor = <<Request(c).address>>]

\* A handleAbi that drops its result when the address field has changed since
\* it started.
ShouldInject_OnlyCurrent(c) ==
    generatedUI(c.body) # <<>> /\ HasIframe /\ c.address = trim(contractAddress)

\* The returns before the injection (lines 167-174): there is content and the
\* iframe is in the document. Nothing else is looked at.
ShouldInject(c) == generatedUI(c.body) # <<>> /\ HasIframe

\* response.json() settles (lines 165-197): a body that does not parse goes to
\* the catch; without content, or without the iframe, handleAbi returns; else
\* the markup is written into the sandbox document and the provider attached.
JsonSettles(c) ==
    /\ c \in DOMAIN cycles
    /\ c.pc = "json"
    /\ IF c.body = "unparsable"
       THEN /\ sandbox' = sandbox
            /\ CatchInHandleAbi(c)
       ELSE /\ sandbox' = IF ShouldInject(c)
                          THEN SurfaceOf(c, Inject(sandbox, generatedUI(c.body)[1]))
                          ELSE sandbox
            /\ ReturnFromHandleAbi(c)
    /\ UNCHANGED <<startMessage, startsInFlight, mounted, tevmClient, block, sends,
                   lastCall, lastSettle, contractAddress,
                   openAiKey, etherscanKey, localStorage>>

Next ==
    \/ ClickStart
    \/ \E msg \in ResolvedMessages : StartResolves(msg)
    \/ \E e \in RejectedMessages : StartRejects(e)
    \/ ClickForkButton
    \/ Unmount
    \/ \E t \in timers : TimerFires(t)
    \/ \E c \in DOMAIN cycles, response \in Responses : GetBlockSettles(c, response)
    \/ \E c \in DOMAIN cycles, response \in Responses : AutoloadSettles(c, response)
    \/ \E c \in DOMAIN cycles, response \in Responses : ReadContractSettles(c, response)
    \/ \E c \in DOMAIN cycles, ok \in BOOLEAN, body \in Contents : FetchSettles(c, ok, body)
    \/ \E c \in DOMAIN cycles : JsonSettles(c)

Spec == Init /\ [][Next]_vars

\* ---------------------------------------------------------------------------
\* The synthesis pipeline with what goes into it: the page once Start has
\* succeeded, driven by the address field, the Get ABI button, the poll
\* timer and the answers of the chain and of the generation service.
\* ---------------------------------------------------------------------------

\* The address field (line 289, bind:value): the user types an address.
EditAddress(v) ==
    /\ mounted
    /\ v # contractAddress
    /\ contractAddress' = v
    /\ localStorage' = PersistContractAddress(localStorage, v)
    /\ UNCHANGED <<startMessage, startsInFlight, mounted, tevmClient, block, sessions,
                   activeSession, timers, cycles, sends, sandbox, lastCall, lastSettle,
                   openAiKey, etherscanKey>>

\* The Get ABI button (lines 292-294), which is there when contractAddress is
\* not the empty string: handleAbi() up to its await of autoload.
ClickGetAbi ==
    /\ mounted
    /\ contractAddress # <<>>
    /\ Size(cycles) < MaxCycles
    /\ Commit(sessions, Put(cycles, handleAbi(0, tevmClient, contractAddress, etherscanKey)), timers,
              activeSession)
    /\ UNCHANGED <<startMessage, startsInFlight, mounted, tevmClient, block, sends,
                   sandbox, lastCall, lastSettle, contractAddress,
                   openAiKey, etherscanKey, localStorage>>

\* Start has succeeded: the poll session is there and its first cycle waits
\* for the block.
InitAbi ==
    /\ startMessage = "started"
    /\ startsInFlight = 0
    /\ mounted = TRUE
    /\ tevmClient = 0
    /\ block = Undefined
    /\ contractAddress = getItemOrEmpty(StoredBefore, "contractAddress")
    /\ openAiKey = getItemOrEmpty(StoredBefore, "openai-key")
    /\ etherscanKey = getItemOrEmpty(StoredBefore, "etherscan-key")
    /\ localStorage = MountEffects(StoredBefore, contractAddress, openAiKey, etherscanKey)
    /\ sessions = <<[isRunning |-> TRUE, timeoutId |-> 0, origin |-> "resolved"]>>
    /\ activeSession = 1
    /\ timers = {}
    /\ cycles = pollBlock(EmptyBag, 1, 0)
    /\ sends = {}
    /\ sandbox = NoSurface
    /\ lastCall = "none"
    /\ lastSettle = NoSettle

NextAbi ==
    \/ \E v \in AddressInputs : EditAddress(v)
    \/ ClickGetAbi
    \/ \E t \in timers : TimerFires(t)
    \/ \E c \in DOMAIN cycles, response \in Responses : GetBlockSettles(c, response)
    \/ \E c \in DOMAIN cycles, response \in Responses : AutoloadSettles(c, response)
    \/ \E c \in DOMAIN cycles, response \in Responses : ReadContractSettles(c, response)
    \/ \E c \in DOMAIN cycles, ok \in BOOLEAN, body \in PlainBodies : FetchSettles(c, ok, body)
    \/ \E c \in DOMAIN cycles : JsonSettles(c)

SpecAbi == InitAbi /\ [][NextAbi]_vars

\* ---------------------------------------------------------------------------
\* The injection with every kind of response: the page once Start has
\* succeeded, with the address it was loaded with, and a generation service
\* whose markup may have an inline script.
\* ---------------------------------------------------------------------------
NextScript ==
    \/ ClickGetAbi
    \/ \E t \in timers : TimerFires(t)
    \/ \E c \in DOMAIN cycles, response \in Responses : GetBlockSettles(c, response)
    \/ \E c \in DOMAIN cycles, response \in Responses : AutoloadSettles(c, response)
    \/ \E c \in DOMAIN cycles, response \in Responses : ReadContractSettles(c, response)
    \/ \E c \in DOMAIN cycles, ok \in BOOLEAN, body \in Bodies : FetchSettles(c, ok, body)
    \/ \E c \in DOMAIN cycles : JsonSettles(c)

SpecScript == InitAbi /\ [][NextScript]_vars

\* ---------------------------------------------------------------------------
\* Invocations racing over one change of the address: the page once Start has
\* succeeded, where the user replaces the address the page was loaded with
\* and does not come back to it. An invocation for the stored address has
\* then started before every invocation for the new one.
\* ---------------------------------------------------------------------------
ReplaceAddress(v) ==
    /\ contractAddress = StoredAddress
    /\ EditAddress(v)

NextRace ==
    \/ \E v \in AddressInputs : ReplaceAddress(v)
    \/ ClickGetAbi
    \/ \E t \in timers : TimerFires(t)
    \/ \E c \in DOMAIN cycles, response \in Responses : GetBlockSettles(c, response)
    \/ \E c \in DOMAIN cycles, response \in Responses : AutoloadSettles(c, response)
    \/ \E c \in DOMAIN cycles, response \in Responses : ReadContractSettles(c, response)
    \/ \E c \in DOMAIN cycles, ok \in BOOLEAN, body \in PlainBodies : FetchSettles(c, ok, body)
    \/ \E c \in DOMAIN cycles : JsonSettles(c)

SpecRace == InitAbi /\ [][NextRace]_vars

\* ---------------------------------------------------------------------------
\* The persisted fields over runs of the page: the user edits the three
\* fields and loads the page again.
\* ---------------------------------------------------------------------------

\* The generation-service key field (line 304, bind:value): the $effects of
\* lines 43-47 and 229-231 read openAiKey and run again.
EditOpenAiKey(v) ==
    /\ mounted
    /\ v # openAiKey
    /\ openAiKey' = v
    /\ localStorage' = PersistOpenAiKeyCopy(PersistOpenAiKey(localStorage, v), v)
    /\ UNCHANGED <<startMessage, startsInFlight, mounted, tevmClient, block, sessions,
                   activeSession, timers, cycles, sends, sandbox, lastCall, lastSettle,
                   contractAddress, etherscanKey>>

\* The registry key field (line 313, bind:value): the $effect of lines 49-53
\* runs again.
EditEtherscanKey(v) ==
    /\ mounted
    /\ v # etherscanKey
    /\ etherscanKey' = v
    /\ localStorage' = PersistEtherscanKey(localStorage, v)
    /\ UNCHANGED <<startMessage, startsInFlight, mounted, tevmClient, block, sessions,
                   activeSession, timers, cycles, sends, sandbox, lastCall, lastSettle,
                   contractAddress, openAiKey>>

\* The page is loaded again: the script block runs from its first line with
\* the storage as the last run left it (lines 12-56), and the $effects run.
Startup ==
    /\ startMessage' = Undefined
    /\ startsInFlight' = 0
    /\ mounted' = TRUE
    /\ tevmClient' = 0
    /\ block' = Undefined
    /\ contractAddress' = getItemOrEmpty(localStorage, "contractAddress")
    /\ openAiKey' = getItemOrEmpty(localStorage, "openai-key")
    /\ etherscanKey' = getItemOrEmpty(localStorage, "etherscan-key")
    /\ localStorage' = MountEffects(localStorage, contractAddress', openAiKey', etherscanKey')
    /\ sessions' = <<>>
    /\ activeSession' = 0
    /\ timers' = {}
    /\ cycles' = EmptyBag
    /\ sends' = {}
    /\ sandbox' = NoSurface
    /\ lastCall' = "none"
    /\ lastSettle' = NoSettle

NextStore ==
    \/ \E v \in AddressInputs : EditAddress(v)
    \/ \E v \in KeyInputs : EditOpenAiKey(v)
    \/ \E v \in KeyInputs : EditEtherscanKey(v)
    \/ Startup

SpecStore == Init /\ [][NextStore]_vars

\* ---------------------------------------------------------------------------
\* The bridge and the fork manager, their functions called directly.
\* ---------------------------------------------------------------------------

\* request(...) of the client transport (via "client", lines 20-26) or of a
\* provider (via "provider", lines 178-184) is called: the envelope is built
\* and handed to invoke('request').
CallRequest(via, method) ==
    /\ Cardinality(sends) < MaxCalls
    /\ \E u \in randomUUID(IdsInUse(sends)) :
         sends' = sends \cup
             {NewSend(method, via, FreeSlot({s.slot : s \in sends}, MaxCalls), u)}
    /\ UNCHANGED <<startMessage, startsInFlight, mounted, tevmClient, block, sessions,
                   activeSession, timers, cycles, sandbox, lastCall, lastSettle, contractAddress,
                   openAiKey, etherscanKey, localStorage>>

\* The native request command answers the call `call`: the promise of the
\* call settles with what .then and .catch make of the response.
CallSettles(call, response) ==
    /\ call \in sends
    /\ LET p == PromiseOf(sends, call)
           t == Then(response)
           out == Outcome(p.via, response)
       IN  IF t.kind = "rejected" /\ p.via = "client" /\ Catch(t.error).do # "throw"
           THEN /\ sends' = (sends \ {p}) \cup {[p EXCEPT !.invokes = @ + 1]}
                /\ UNCHANGED lastSettle
           ELSE /\ sends' = sends \ {p}
                /\ lastSettle' =
                       [via |-> p.via, error |-> response.error, result |-> response.result,
                        kind |-> out.kind, outError |-> out.error, outResult |-> out.result,
                        invokes |-> p.invokes, envId |-> p.env.id, respFor |-> call.env.id,
                        others |-> Cardinality(sends \ {p})]
    /\ UNCHANGED <<startMessage, startsInFlight, mounted, tevmClient, block, sessions,
                   activeSession, timers, cycles, sandbox, lastCall, contractAddress,
                   openAiKey, etherscanKey, localStorage>>

\* fork() is called (lines 68-74).
CallFork ==
    /\ tevmClient' = fork(tevmClient)
    /\ lastCall' = "fork"
    /\ UNCHANGED <<startMessage, startsInFlight, mounted, block, sessions, activeSession,
                   timers, cycles, sends, sandbox, lastSettle, contractAddress,
                   openAiKey, etherscanKey, localStorage>>

\* unfork() is called (lines 75-77).
CallUnfork ==
    /\ tevmClient' = unfork(tevmClient)
    /\ lastCall' = "unfork"
    /\ UNCHANGED <<startMessage, startsInFlight, mounted, block, sessions, activeSession,
                   timers, cycles, sends, sandbox, lastSettle, contractAddress,
                   openAiKey, etherscanKey, localStorage>>

NextCalls ==
    \/ \E via \in {"client", "provider"}, method \in Methods : CallRequest(via, method)
    \/ \E call \in sends, response \in Responses : CallSettles(call, response)
    \/ CallFork
    \/ CallUnfork

SpecCalls == Init /\ [][NextCalls]_vars

\* ---------------------------------------------------------------------------
\* Properties.
\* ---------------------------------------------------------------------------

HasTimer(i) == \E t \in timers : t.session = i

Running == {i \in 1..Len(sessions) : sessions[i].isRunning}

\* C1: a running poll session never loses its loop: whatever failed in a
\* cycle, a cycle of the session is in flight or its next timer is pending.
C1_LoopSurvivesFailure ==
    \A i \in Running : FramesOf(cycles, i) # {} \/ HasTimer(i)

\* C2: a cycle of a torn-down session (isRunning cleared) does nothing with
\* what it was waiting for: it never goes on to a further step (storing the
\* block and starting handleAbi, sending the generation request, reading its
\* response), and the sandbox is only ever written by a cycle whose session
\* is still running.
C2_StaleResultsNotActedOn ==
    [][/\ \A c \in DOMAIN cycles :
             ~sessions[c.session].isRunning =>
                 \A d \in DOMAIN cycles' :
                     (d.session = c.session /\ cycles' = Put(Take(cycles, c), d)) => d = c
       /\ sandbox' # sandbox =>
             \E c \in DOMAIN cycles : c.pc = "json" /\ sessions[c.session].isRunning
      ]_vars

\* The cycle position d was entered in this step: by a cycle going on from
\* another position, by a timer firing, or by the first pollBlock() of a new
\* session.
EnteredInStep(d) ==
    \/ \E c \in DOMAIN cycles : c # d /\ c.session = d.session /\ cycles' = Put(Take(cycles, c), d)
    \/ d.pc = "getBlock" /\ cycles' = Put(cycles, d)
    \/ d.pc = "getBlock" /\ startMessage' # startMessage /\ activeSession' # 0
          /\ d.session = activeSession'

\* C3: every chain read of the poll loop and of interface synthesis goes, at
\* the moment it is issued, to the in-memory execution context when a fork
\* session is active and to the live backend when none is.
C3_ReadsFollowFork ==
    [][\A d \in DOMAIN cycles' :
          (d.pc \in ReadPcs /\ EnteredInStep(d)) =>
              d.backend = IF tevmClient # 0 THEN "fork" ELSE "live"
      ]_vars

\* C4: a torn-down poll session has no timer: the timer pending at teardown
\* is gone with the teardown and a cycle in flight at teardown sets none, so
\* nothing is left that could start a cycle of that session.
C4_NoTimerAfterTeardown ==
    \A t \in timers : sessions[t.session].isRunning

\* C4 witness: a session was torn down while its cycle was in flight, and the
\* cycle is still in flight.
C4_Witness ==
    \E i \in 1..Len(sessions) : ~sessions[i].isRunning /\ FramesOf(cycles, i) # {}

\* C5: at most one poll session has its running flag set, it is the one the
\* $effect holds the cleanup of, and at most one poll timer is pending.
C5_AtMostOnePollSession ==
    /\ Cardinality(Running) <= 1
    /\ Running \subseteq {activeSession}
    /\ Cardinality(timers) <= 1

\* C5 witness: a second start has superseded a session whose cycle is still
\* in flight, and the new session has started its first cycle.
C5_Witness ==
    /\ Len(sessions) = 2
    /\ sessions[1].isRunning /\ FramesOf(cycles, 1) # {}
    /\ ~sessions[2].isRunning /\ FramesOf(cycles, 2) # {}

\* C6: a poll session has at most one cycle in flight, and while its timer
\* for the next cycle is pending it has none: the timer is set only when the
\* cycle's block fetch and synthesis have settled.
C6_CyclesNeverOverlap ==
    \A i \in 1..Len(sessions) :
        /\ SumOver(cycles, FramesOf(cycles, i)) <= 1
        /\ HasTimer(i) => FramesOf(cycles, i) = {}

\* C6 witness: a cycle has settled with an injection and the timer of the
\* next cycle is pending.
C6_Witness ==
    \E i \in Running : HasTimer(i) /\ sandbox.content = "generated"

\* C7: every poll session comes from an invoke('start') that resolved.
C7_SessionOnlyAfterSuccessfulStart ==
    \A i \in 1..Len(sessions) : sessions[i].origin = "resolved"

\* C8: a send answered with a response that has an error rejects with just
\* that error, returns no result, and made one native request.
C8_ErrorPropagatesVerbatim ==
    lastSettle.error # <<>> =>
        /\ lastSettle.kind = "rejected"
        /\ lastSettle.outError = lastSettle.error
        /\ lastSettle.outResult = <<>>
        /\ lastSettle.invokes = 1

\* C8 witness: a send of the provider was answered with the error code -32000,
\* message "reverted", next to a result.
C8_Witness ==
    /\ lastSettle.via = "provider"
    /\ lastSettle.error = <<[code |-> -32000, message |-> "reverted", data |-> "0x"]>>
    /\ lastSettle.result # <<>>

\* C9: the envelopes in flight all carry jsonrpc "2.0" and ids that differ
\* from one another, and a send settles with the response to its own envelope.
C9_CallsCorrelated ==
    /\ \A s \in sends : s.env.jsonrpc = "2.0"
    /\ \A s1, s2 \in sends : s1 # s2 => s1.env.id # s2.env.id
    /\ lastSettle.envId = lastSettle.respFor

\* C9 witness: a send has settled, with a rejection, while another one was
\* in flight, which is in flight still.
C9_Witness ==
    /\ lastSettle.kind = "rejected"
    /\ lastSettle.others > 0
    /\ \E s \in sends : s.env.id # lastSettle.envId

\* C10: the mode is Forked (tevmClient set) exactly when the last call was
\* fork(), whatever was called before. The fork session is the one object
\* tevmClient refers to.
C10_ForkedIffLastCallFork ==
    (tevmClient # 0) <=> (lastCall = "fork")

\* C10 witness: fork() was called while Forked and the second memory client
\* has replaced the first.
C10_Witness ==
    tevmClient = 2 /\ lastCall = "fork"

\* The stages of a cycle, each with the stages that may come next: block
\* fetch, ABI resolution, name probe, generation request, its response.
StageOrder ==
    {<<"getBlock", "autoload">>, <<"autoload", "readContract">>, <<"autoload", "fetch">>,
     <<"readContract", "fetch">>, <<"fetch", "json">>}

CountAt(cy, pc) == SumOver(cy, {c \in DOMAIN cy : c.pc = pc})

\* C13: in every step, a cycle that goes from one stage to another goes to
\* a stage that comes next in the order block fetch, ABI resolution, name
\* probe, generation request, response (and from the block fetch only with
\* the block stored); a cycle that starts starts at the block fetch; and the
\* sandbox is written only by a cycle that leaves the last stage, the
\* response received.
C13_StagesInOrder ==
    [][/\ \A c \in DOMAIN cycles : \A d \in DOMAIN cycles' :
             (c.pc # d.pc /\ cycles' = Put(Take(cycles, c), d)) =>
                 /\ d.session = c.session
                 /\ <<c.pc, d.pc>> \in StageOrder
                 /\ c.pc = "getBlock" => block' \in Results
       /\ Size(cycles') > Size(cycles) =>
             /\ CountAt(cycles', "getBlock") = CountAt(cycles, "getBlock") + 1
             /\ \A pc \in {"autoload", "readContract", "fetch", "json"} :
                    CountAt(cycles', pc) = CountAt(cycles, pc)
       /\ sandbox' # sandbox =>
             /\ CountAt(cycles', "json") = CountAt(cycles, "json") - 1
             /\ Size(cycles') = Size(cycles) - 1
      ]_vars

\* C13 witness: a cycle has gone through every stage to the injection and
\* the next cycle of the session has gone through its own up to the name
\* probe.
C13_Witness ==
    /\ sandbox.content = "generated"
    /\ Len(sessions) = 1
    /\ \E c \in DOMAIN cycles : c.pc = "readContract" /\ sessions[c.session].isRunning

\* C16: in the step that activates a poll session (startMessage takes a new
\* value and the $effect holds a cleanup), the block fetch of the session's
\* first cycle is issued and the session has no timer; and a timer is only
\* ever pending for a session none of whose cycles is in flight.
C16_FirstCycleAtActivation ==
    [][/\ (startMessage' # startMessage /\ activeSession' # 0) =>
             /\ \E d \in DOMAIN cycles' : d.session = activeSession' /\ d.pc = "getBlock"
             /\ \A t \in timers' : t.session # activeSession'
       /\ \A t \in timers' : FramesOf(cycles', t.session) = {}
      ]_vars

\* C16 witness: a session has just been activated: its first block fetch is
\* in flight, nothing has settled and no timer was set.
C16_Witness ==
    /\ startMessage = "started"
    /\ Len(sessions) = 1 /\ sessions[1].isRunning /\ sessions[1].timeoutId = 0
    /\ block = Undefined
    /\ timers = {}
    /\ \E c \in DOMAIN cycles : c.session = 1 /\ c.pc = "getBlock"

\* How many invocations are suspended as the frame e.
CountOf(cy, e) == IF e \in DOMAIN cy THEN cy[e] ELSE 0

\* The frame c is left in this step: an invocation that was suspended there
\* has gone on or has ended.
Left(c) == CountOf(cycles', c) < CountOf(cycles, c)

\* An invocation has ended in this step.
Ended == Size(cycles') < Size(cycles)

AbiPcs == {"autoload", "readContract", "fetch", "json"}

\* C11: an invocation whose interface resolution gave an empty ABI is over
\* with that: it is never at the generation request or at its response.
C11_EmptyAbiIsTerminal ==
    \A c \in DOMAIN cycles : c.pc \in {"fetch", "json"} => AbiOf(c.address) # {}

\* C12: in every step, an invocation that leaves the name probe goes on to
\* the generation request, whether readContract gave a name or rejected; and
\* a request of an invocation whose probe found no name function or failed
\* carries the name "Unknown Contract", the address of the invocation and the
\* ABI resolved for it.
C12_ProbeFailureDoesNotAbort ==
    [][/\ \A c \in DOMAIN cycles :
             (c.pc = "readContract" /\ Left(c)) =>
                 /\ ~Ended
                 /\ \E d \in DOMAIN cycles' :
                       /\ d.pc = "fetch" /\ d.probe \in {"ok", "failed"}
                       /\ d.session = c.session /\ d.address = c.address
                       /\ CountOf(cycles', d) > CountOf(cycles, d)
       /\ \A d \in DOMAIN cycles' :
             (d.pc = "fetch" /\ d.probe # "ok") =>
                 /\ d.probe \in {"absent", "failed"}
                 /\ Request(d) = [name |-> "Unknown Contract", address |-> d.address,
                                  abi |-> AbiOf(d.address)]
      ]_vars

\* C12 witness: the generation request of an invocation for the contract "A"
\* is in flight after its name probe was rejected.
C12_Witness ==
    \E c \in DOMAIN cycles :
        /\ c.pc = "fetch" /\ c.probe = "failed" /\ c.address = <<"A">>
        /\ Request(c).name = "Unknown Contract" /\ Request(c).abi # {}

\* C14: in every step, the sandbox is changed only by an invocation that
\* leaves the response stage with content; an invocation whose generation
\* request was rejected, whose response does not parse or has no content
\* ends with the sandbox as it was, and no generation request is sent in
\* that step.
C14_NoSurfaceOnGenerationFailure ==
    [][/\ sandbox' # sandbox =>
             \E c \in DOMAIN cycles :
                 c.pc = "json" /\ c.body \in {"markup", "script"} /\ Left(c)
       /\ \A c \in DOMAIN cycles :
             (/\ c.pc = "fetch" \/ (c.pc = "json" /\ c.body \in {"unparsable", "none"})
              /\ Left(c) /\ Ended) =>
                 /\ sandbox' = sandbox
                 /\ CountAt(cycles', "fetch") <= CountAt(cycles, "fetch")
      ]_vars

\* C14 witness: a surface and its provider are in the sandbox, and the
\* response of a later invocation has come without content.
C14_Witness ==
    /\ sandbox.content = "generated" /\ sandbox.viemProvider = 1
    /\ \E c \in DOMAIN cycles : c.pc = "json" /\ c.body = "none"

\* C15: a script of the injected markup that has run has run with the
\* provider of its own injection as viemProvider.
C15_ProviderBeforeScripts ==
    sandbox.scriptSaw # <<>> => sandbox.scriptSaw = <<sandbox.viemProvider>>

\* C17: a poll cycle is in the synthesis pipeline only with a contract
\* address: no cycle is at ABI resolution, at the name probe, at the
\* generation request or at its response with the empty address.
C17_NoSynthesisWithoutAddress ==
    \A c \in DOMAIN cycles : (c.session # 0 /\ c.pc \in AbiPcs) => c.address # <<>>

C19_HandleAbiNeverRejects ==
    [][\A c \in DOMAIN cycles :
          (c.pc \in AbiPcs /\ Left(c) /\ Ended) =>
              IF c.session = 0
              THEN sessions' = sessions /\ timers' = timers
              ELSE sessions[c.session].isRunning =>
                       \E t \in timers' :
                           /\ t.session = c.session
                           /\ sessions'[c.session].timeoutId = t.h
                           /\ sessions'[c.session].isRunning
      ]_vars

\* C19 witness: the generation response of a poll cycle has come with a body
\* that does not parse, so that response.json() will reject, in a session
\* that is running.
C19_Witness ==
    \E c \in DOMAIN cycles :
        /\ c.session # 0 /\ c.pc = "json" /\ c.body = "unparsable"
        /\ sessions[c.session].isRunning
        /\ block # Undefined

\* The cycles that are at the response of the generation service, with
\* content in it.
WithContent(cy) == SumOver(cy, {c \in DOMAIN cy : c.pc = "json" /\ generatedUI(c.body) # <<>>})

\* In this step a cycle sends its one generation request, or none is sent: a
\* request is sent by a cycle that leaves ABI resolution or the name probe,
\* and every cycle that leaves the name probe sends one.
OneRequestPerCycle ==
    /\ CountAt(cycles', "fetch") <= CountAt(cycles, "fetch") + 1
    /\ CountAt(cycles', "fetch") > CountAt(cycles, "fetch") =>
          CountAt(cycles', "autoload") + CountAt(cycles', "readContract")
              = CountAt(cycles, "autoload") + CountAt(cycles, "readContract") - 1
    /\ CountAt(cycles', "readContract") < CountAt(cycles, "readContract") =>
          CountAt(cycles', "fetch") = CountAt(cycles, "fetch") + 1

\* C20 as it is stated: in every step, a cycle sends its one generation
\* request or none is sent, and a cycle that leaves the response stage with
\* content injects it: the sandbox has the new surface and a new provider.
C20_EveryCycleRegenerates ==
    [][/\ OneRequestPerCycle
       /\ WithContent(cycles') < WithContent(cycles) =>
             /\ sandbox'.content = "generated"
             /\ sandbox'.viemProvider \notin {0, sandbox.viemProvider}
      ]_vars

\* C20, amended: the same for a cycle that leaves the response stage with
\* content while the iframe of the page is in the document.
C20_EveryCycleRegeneratesIntoIframe ==
    [][/\ OneRequestPerCycle
       /\ (WithContent(cycles') < WithContent(cycles) /\ HasIframe) =>
             /\ sandbox'.content = "generated"
             /\ sandbox'.viemProvider \notin {0, sandbox.viemProvider}
      ]_vars

\* C20 witness: two cycles of the one session, for the same address, have
\* each injected: the provider of the second is attached and the timer of
\* the third cycle is pending.
C20_Witness ==
    /\ Len(sessions) = 1 /\ sessions[1].isRunning /\ HasTimer(1)
    /\ contractAddress = StoredAddress
    /\ sandbox.content = "generated" /\ sandbox.viemProvider = 2

\* C21: the value each persisted field is initialised with at the next
\* startup is the value the field holds now: the contract address, the
\* generation-service key and the registry key are each what the storage
\* gives back under the key the field is read from.
C21_StartupRestoresLastValues ==
    /\ getItemOrEmpty(localStorage, "contractAddress") = contractAddress
    /\ getItemOrEmpty(localStorage, "openai-key") = openAiKey
    /\ getItemOrEmpty(localStorage, "etherscan-key") = etherscanKey

\* C22: in every step in which the autoload call of an invocation is
\* answered, the invocation leaves ABI resolution: it goes on to the name
\* probe or to the generation request, or it ends; it has followed no hop of
\* the proxy chain, and so has every invocation in flight, also for the
\* contract whose proxy chain is a cycle.
C22_NoProxyHopFollowed ==
    [][/\ \A c \in DOMAIN cycles :
             (c.pc = "autoload" /\ Left(c)) =>
                 /\ CountAt(cycles', "autoload") = CountAt(cycles, "autoload") - 1
                 /\ \/ Ended
                    \/ \E d \in DOMAIN cycles' :
                          /\ d.pc \in {"readContract", "fetch"}
                          /\ d.session = c.session /\ d.address = c.address
                          /\ CountOf(cycles', d) > CountOf(cycles, d)
       /\ \A d \in DOMAIN cycles' : d.hops = 0 /\ ResolvedAddress(d) = d.address
      ]_vars

\* C22 witness: an invocation for the contract "A", whose proxy chain is the
\* cycle A -> C -> A, has got through ABI resolution and is at its name probe.
C22_Witness ==
    \E c \in DOMAIN cycles :
        /\ c.pc = "readContract" /\ c.address = <<"A">>
        /\ HopsFrom(c.address, 2) = c.address
        /\ c.hops = 0

\* C23 as it is stated: at most one cycle of the poll loop is in progress at
\* any moment, over all sessions.
C23_AtMostOneCycleInProgress ==
    Size(cycles) <= 1

\* The sessions that have a cycle in progress.
WithCycle == {i \in 1..Len(sessions) : FramesOf(cycles, i) # {}}

\* C23, amended: at most one cycle in progress is of a session that is
\* running; every other one is the last cycle of a session that was torn
\* down while it was in flight: a session that is not running has at most
\* one cycle, no timer for another, and is not the one the $effect holds.
C23_AtMostOneCycleOfRunningSession ==
    /\ Cardinality(WithCycle \cap Running) <= 1
    /\ \A i \in (1..Len(sessions)) \ Running :
          /\ SumOver(cycles, FramesOf(cycles, i)) <= 1
          /\ ~HasTimer(i)
          /\ i # activeSession
    /\ Size(cycles) = SumOver(cycles, UNION {FramesOf(cycles, i) : i \in WithCycle})

\* C23 witness: a start has superseded a session whose cycle was in flight:
\* that cycle is at its generation request while the first cycle of the new
\* session waits for the block.
C23_Witness ==
    /\ Len(sessions) = 2 /\ sessions[1].isRunning /\ ~sessions[2].isRunning
    /\ \E c, d \in DOMAIN cycles :
          /\ c.session = 1 /\ c.pc = "getBlock"
          /\ d.session = 2 /\ d.pc = "fetch"

\* C25: in every step that changes the fork session reference, nothing else
\* of the page changes: the poll sessions with their flags, timers and cycles
\* in flight, startMessage and the starts in flight, the block, the contract
\* address and the keys with their storage, and the sandbox are as they were.
C25_ForkChangesOnlyTevmClient ==
    [][tevmClient' # tevmClient =>
          /\ sessions' = sessions /\ activeSession' = activeSession
          /\ timers' = timers /\ cycles' = cycles
          /\ startMessage' = startMessage /\ startsInFlight' = startsInFlight
          /\ block' = block /\ mounted' = mounted
          /\ contractAddress' = contractAddress /\ openAiKey' = openAiKey
          /\ etherscanKey' = etherscanKey /\ localStorage' = localStorage
          /\ sandbox' = sandbox
      ]_vars

\* C25 witness: the page is forked while its poll session is running with a
\* cycle at the name probe, after a block was shown and a surface injected.
C25_Witness ==
    /\ tevmClient # 0 /\ startMessage = "started"
    /\ block # Undefined /\ sandbox.content = "generated"
    /\ \E c \in DOMAIN cycles :
          c.pc = "readContract" /\ c.session = activeSession /\ sessions[c.session].isRunning

\* C26: in every step, an invocation that starts takes the trimmed contract
\* address of that moment as its address, and an invocation that goes on from
\* ABI resolution, from the name probe or from the generation request goes on
\* with the address it started with, whatever contractAddress is by then:
\* its name probe and its request are for this address, and the ABI in its
\* request is the one resolved for this address.
C26_OneAddressSnapshot ==
    [][/\ \A d \in DOMAIN cycles' :
             (d.pc = "autoload" /\ CountOf(cycles', d) > CountOf(cycles, d)) =>
                 d.address = trim(contractAddress)
       /\ \A c \in DOMAIN cycles :
             (c.pc \in {"autoload", "readContract", "fetch"} /\ Left(c) /\ ~Ended) =>
                 \E d \in DOMAIN cycles' :
                     /\ CountOf(cycles', d) > CountOf(cycles, d)
                     /\ <<c.pc, d.pc>> \in StageOrder
                     /\ d.session = c.session /\ d.address = c.address
                     /\ Request(d).address = c.address
                     /\ Request(d).abi = AbiOf(c.address)
      ]_vars

\* C26 witness: the generation request of an invocation that started for the
\* contract "A" and got its name is in flight, and the address field holds
\* another address by now.
C26_Witness ==
    \E c \in DOMAIN cycles :
        /\ c.pc = "fetch" /\ c.probe = "ok" /\ c.address = <<"A">>
        /\ contractAddress = <<"B", " ">>

\* The surface shown was generated for the address the field holds now, which
\* is not the one the page was loaded with: an invocation that started after
\* the address was replaced has injected it.
ShowsSurfaceOfLaterStart ==
    /\ trim(contractAddress) # trim(StoredAddress)
    /\ sandbox.surfaceFor = <<trim(contractAddress)>>

\* C24 as it is stated: in every step, the surface of an invocation that
\* started after the address was replaced stays: no invocation that started
\* before, for the address that was replaced, overwrites it when it finishes.
C24_LaterStartIsNotOverwritten ==
    [][ShowsSurfaceOfLaterStart => sandbox'.surfaceFor = sandbox.surfaceFor]_vars

\* C24, amended: in every step, an invocation that reads its response with
\* content while the iframe is in the document injects: the surface shown is
\* then the one for the address of this invocation, with a new provider,
\* whatever is shown and whichever invocation started first; and the surface
\* changes in no other step.
C24_LastToFinishWins ==
    [][/\ \A c \in DOMAIN cycles :
             (c.pc = "json" /\ Left(c) /\ generatedUI(c.body) # <<>> /\ HasIframe) =>
                 /\ sandbox'.surfaceFor = <<c.address>>
                 /\ sandbox'.viemProvider \notin {0, sandbox.viemProvider}
       /\ sandbox'.surfaceFor # sandbox.surfaceFor =>
             \E c \in DOMAIN cycles :
                 /\ c.pc = "json" /\ Left(c) /\ generatedUI(c.body) # <<>>
                 /\ sandbox'.surfaceFor = <<c.address>>
      ]_vars

\* C24 witness: the address was replaced, an invocation for the new address
\* has injected its surface, and an invocation that started before, for the
\* replaced address, has its response with content and is about to read it.
C24_Witness ==
    /\ ShowsSurfaceOfLaterStart
    /\ \E c \in DOMAIN cycles :
          c.pc = "json" /\ c.address = StoredAddress /\ generatedUI(c.body) # <<>>

====
